---- MODULE Spec2Model ----
(***************************************************************************)
(* ws2812-spi: driving WS2812 / SK6812W strips through an SPI transport.   *)
(*                                                                         *)
(* The module models the four driver files under src/src                   *)
(*   lib.rs         streaming over SpiBus::write, one word per call        *)
(*   halfduplex.rs  streaming over FullDuplex::send, 5-bit patterns        *)
(*   prerendered.rs caller-owned buffer, one bulk SpiBus::write            *)
(*   hosted.rs      Vec<u8> buffer, one bulk SpiBus::write                 *)
(* and the transport as a recorder that reports an error on chosen calls.  *)
(*                                                                         *)
(* Of the four, the crate as it stands builds lib.rs and prerendered.rs.   *)
(* halfduplex.rs is declared by no `mod` item (lib.rs:17-19) and is        *)
(* modelled as it behaves compiled on its own.  hosted.rs is declared      *)
(* under feature std (lib.rs:17-18), where the impl header at hosted.rs:90 *)
(* names a type parameter PO it does not declare; it is modelled as it     *)
(* behaves with that parameter declared.                                   *)
(***************************************************************************)
EXTENDS Integers, Sequences, FiniteSets, TLC

(* ------------------------------ bounds --------------------------------- *)

\* longest color sequence handed to one write call
MaxPixels == 3

\* the transport may be told to fail on call number 0..MaxFailAt of a write
MaxFailAt == 1

\* hosted.rs: write is modelled while the Vec holds at most this many bytes
MaxData == 320

\* prerendered.rs buffers of SpecCap are CapSlack bytes longer than the
\* largest documented minimum at most
CapSlack == 2

(* --------------------------- program constants -------------------------- *)

\* prerendered.rs:14
RESET_DATA_LEN == 140
\* lib.rs:148, the literal of reset()
LibResetLen == 140
\* halfduplex.rs:140, the literal of flush()
FlushLen == 140
\* hosted.rs:55/79 (vec![0; 140]), 108 and 110
HostedResetLen == 140
\* width of a byte
U8 == 256
\* usize of the narrowest target Rust supports (16 bit); the wrapped value of
\* data.len() - 4 exceeds every index of a buffer shorter than 4 at any width
UsizeBits == 16

Zeros(n) == [i \in 1..n |-> 0]

(* ------------------------------- colors --------------------------------- *)

\* smart_leds_trait RGB8 / RGBW<u8, u8>: w is the white channel (item.a.0)
\* and is not read by the three-channel drivers
Palette == << [r |-> 17, g |-> 34, b |-> 51, w |-> 68],
             [r |-> 255, g |-> 0, b |-> 165, w |-> 90] >>

\* n pixels that run through the palette, beginning after entry start
Frame(start, n) == [i \in 1..n |-> Palette[((start + i) % Len(Palette)) + 1]]

\* the color sequences handed to write
Frames == { Frame(start, n) : start \in 1..Len(Palette), n \in 0..MaxPixels }

PixelOrders == {"RGB", "RBG", "GRB", "GBR", "BRG", "BGR"}

\* impl_ordered_colors!(GBR, g, r, b): one line of the table copied from its
\* neighbour
OrderedColorsCopied(po, color) ==
    CASE po = "RGB" -> << color.r, color.g, color.b >>
      [] po = "RBG" -> << color.r, color.b, color.g >>
      [] po = "GRB" -> << color.g, color.r, color.b >>
      [] po = "GBR" -> << color.g, color.r, color.b >>
      [] po = "BRG" -> << color.b, color.r, color.g >>
      [] po = "BGR" -> << color.b, color.g, color.r >>

\* lib.rs:60-75 impl_ordered_colors!
OrderedColors(po, color) ==
    CASE po = "RGB" -> << color.r, color.g, color.b >>
      [] po = "RBG" -> << color.r, color.b, color.g >>
      [] po = "GRB" -> << color.g, color.r, color.b >>
      [] po = "GBR" -> << color.g, color.b, color.r >>
      [] po = "BRG" -> << color.b, color.r, color.g >>
      [] po = "BGR" -> << color.b, color.g, color.r >>

(* ------------------------------ transport ------------------------------- *)

\* The transport records every call (the words it was handed) and reports an
\* error on the calls whose number, counted from 0 within one write, is in
\* faults.  err is the Result of the last call.
NewBus(faults) == [log |-> << >>, faults |-> faults, err |-> FALSE]

\* SpiBus::write(words) / FullDuplex::send(word)
SpiCall(t, words) ==
    [t EXCEPT !.log = Append(@, words), !.err = (Len(t.log) \in t.faults)]

Faults == { {} } \cup { {k} : k \in 0..MaxFailAt }

Min(S) == CHOOSE x \in S : \A y \in S : x <= y

\* for _ in 0..n { spi.write(&[0])?; }: the loop sends zero words until n are
\* sent or a call reports an error, whichever comes first
ZeroRun(t, n) ==
    LET first == Len(t.log)
        hit   == { k \in t.faults : k >= first /\ k < first + n }
        sent  == IF hit = {} THEN n ELSE Min(hit) - first + 1
    IN [t EXCEPT !.log = @ \o [i \in 1..sent |-> << 0 >>], !.err = (hit # {})]

(* --------------------------- fixed 4x table ----------------------------- *)

\* the two mixed entries of the table exchanged
patternsExchanged == << 136, 232, 142, 238 >>

\* lib.rs:137, prerendered.rs:117, hosted.rs:99
patterns == << 136, 142, 232, 238 >>

\* (data & 0b1100_0000) >> 6
TopBits(data) == (data % U8) \div 64

\* data <<= 2 on a u8
Shl2(data) == (data * 4) % U8

\* lib.rs:138-142, the loop of write_byte: k words are still to be sent
RECURSIVE LibWriteByteLoop(_, _, _)
LibWriteByteLoop(t, data, k) ==
    IF k = 0 THEN t
    ELSE LET t1 == SpiCall(t, << patterns[TopBits(data) + 1] >>)
         IN IF t1.err THEN t1 ELSE LibWriteByteLoop(t1, Shl2(data), k - 1)

\* the loop run for 0..3
LibWriteByteThree(t, data) == LibWriteByteLoop(t, data, 3)

\* lib.rs:133-144
LibWriteByte(t, data) == LibWriteByteLoop(t, data, 4)

\* the loop of reset running over 0..139 exclusive
LibResetShort(t) == ZeroRun(t, LibResetLen - 1)

\* lib.rs:146-152
LibReset(t) == ZeroRun(t, LibResetLen)

\* a run of write_byte(..)? calls
RECURSIVE LibWriteBytes(_, _)
LibWriteBytes(t, bytes) ==
    IF bytes = << >> THEN t
    ELSE LET t1 == LibWriteByte(t, Head(bytes))
         IN IF t1.err THEN t1 ELSE LibWriteBytes(t1, Tail(bytes))

\* lib.rs:171-177, the loop over the iterator (three-channel device)
RECURSIVE LibPixelsWs2812(_, _, _)
LibPixelsWs2812(t, po, colors) ==
    IF colors = << >> THEN t
    ELSE LET t1 == LibWriteBytes(t, OrderedColors(po, Head(colors)))
         IN IF t1.err THEN t1 ELSE LibPixelsWs2812(t1, po, Tail(colors))

\* lib.rs:199-206, the loop over the iterator (SK6812W)
RECURSIVE LibPixelsSk6812w(_, _)
LibPixelsSk6812w(t, colors) ==
    IF colors = << >> THEN t
    ELSE LET item == Head(colors)
             t1 == LibWriteBytes(t, << item.g, item.r, item.b, item.w >>)
         IN IF t1.err THEN t1 ELSE LibPixelsSk6812w(t1, Tail(colors))

\* lib.rs:162-180
LibWriteWs2812(po, mosi, colors, faults) ==
    LET t0 == NewBus(faults)
        t1 == IF mosi THEN LibReset(t0) ELSE t0
        t2 == IF t1.err THEN t1 ELSE LibPixelsWs2812(t1, po, colors)
    IN IF t2.err THEN t2 ELSE LibReset(t2)

\* lib.rs:190-209
LibWriteSk6812w(mosi, colors, faults) ==
    LET t0 == NewBus(faults)
        t1 == IF mosi THEN LibReset(t0) ELSE t0
        t2 == IF t1.err THEN t1 ELSE LibPixelsSk6812w(t1, colors)
    IN IF t2.err THEN t2 ELSE LibReset(t2)

(* ------------------------- halfduplex.rs -------------------------------- *)

\* halfduplex.rs:126-131, the match on data & 0x80
HdPattern(data) ==
    LET top == ((data % U8) \div 128) * 128
    IN CASE top = 128 -> 238
         [] top = 0   -> 236
         [] OTHER     -> 255

\* data = data << 1 on a u8
Shl1(data) == (data * 2) % U8

\* halfduplex.rs:125-134, the loop of write_byte: the Result of block!(send)
\* is dropped, the loop goes on whatever the transport answered
RECURSIVE HdWriteByteLoop(_, _, _)
HdWriteByteLoop(t, data, k) ==
    IF k = 0 THEN t
    ELSE LET t1 == SpiCall(t, << HdPattern(data) >>)
         IN HdWriteByteLoop([t1 EXCEPT !.err = FALSE], Shl1(data), k - 1)

\* halfduplex.rs:118-136
HdWriteByte(t, data) == HdWriteByteLoop(t, data, 8)

\* halfduplex.rs:138-144
HdFlush(t) == ZeroRun(t, FlushLen)

\* a run of write_byte(..)? calls
RECURSIVE HdWriteBytes(_, _)
HdWriteBytes(t, bytes) ==
    IF bytes = << >> THEN t
    ELSE LET t1 == HdWriteByte(t, Head(bytes))
         IN IF t1.err THEN t1 ELSE HdWriteBytes(t1, Tail(bytes))

\* halfduplex.rs:166-171 and 197-203, the loops over the iterator
RECURSIVE HdPixels(_, _, _)
HdPixels(t, dev, colors) ==
    IF colors = << >> THEN t
    ELSE LET item == Head(colors)
             bytes == IF dev = "Sk6812w"
                      THEN << item.g, item.r, item.b, item.w >>
                      ELSE << item.g, item.r, item.b >>
             t1 == HdWriteBytes(t, bytes)
         IN IF t1.err THEN t1 ELSE HdPixels(t1, dev, Tail(colors))

\* halfduplex.rs:154-174 and 184-206
HdWrite(dev, mosi, colors, faults) ==
    LET t0 == SpiCall(NewBus(faults), << 0 >>)
        t1 == IF t0.err THEN t0 ELSE IF mosi THEN HdFlush(t0) ELSE t0
        t2 == IF t1.err THEN t1 ELSE HdPixels(t1, dev, colors)
    IN IF t2.err THEN t2 ELSE HdFlush(t2)

(* ------------------------- prerendered.rs ------------------------------- *)

\* a - b on usize without overflow checks
UsizeWrappingSub(a, b) == IF a >= b THEN a - b ELSE (2 ^ UsizeBits) - (b - a)

\* The encoder state of prerendered.rs: the borrowed buffer, the cursor and
\* how encoding ended so far ("ok", "oob" = Err(OutOfBounds), "panic").
\* prerendered.rs:122-127, the loop of write_byte; data[index] is a checked
\* slice access
RECURSIVE PreWriteByteLoop(_, _, _)
PreWriteByteLoop(s, data, k) ==
    IF k = 0 THEN s
    ELSE IF s.index >= Len(s.data) THEN [s EXCEPT !.res = "panic"]
    ELSE PreWriteByteLoop(
            [s EXCEPT !.data[s.index + 1] = patterns[TopBits(data) + 1],
                      !.index = @ + 1],
            Shl2(data), k - 1)

\* prerendered.rs:113-129; oc: the build checks arithmetic overflow
PreWriteByte(s, data, oc) ==
    IF oc /\ Len(s.data) < 4 THEN [s EXCEPT !.res = "panic"]
    ELSE IF s.index > UsizeWrappingSub(Len(s.data), 4)
         THEN [s EXCEPT !.res = "oob"]
         ELSE PreWriteByteLoop(s, data, 4)

\* prerendered.rs:133-142
PreWriteReset(s) ==
    IF s.index + RESET_DATA_LEN > Len(s.data) THEN [s EXCEPT !.res = "oob"]
    ELSE [s EXCEPT
            !.data = SubSeq(s.data, 1, s.index) \o Zeros(RESET_DATA_LEN)
                     \o SubSeq(s.data, s.index + RESET_DATA_LEN + 1, Len(s.data)),
            !.index = @ + RESET_DATA_LEN]

\* a run of write_byte(..)? calls
RECURSIVE PreWriteBytes(_, _, _)
PreWriteBytes(s, bytes, oc) ==
    IF bytes = << >> THEN s
    ELSE LET s1 == PreWriteByte(s, Head(bytes), oc)
         IN IF s1.res # "ok" THEN s1 ELSE PreWriteBytes(s1, Tail(bytes), oc)

\* the SK6812W loop sending the channels as they lie in the struct: r, g, b, w
RECURSIVE PrePixelsStructOrder(_, _, _, _, _)
PrePixelsStructOrder(s, dev, po, colors, oc) ==
    IF colors = << >> THEN s
    ELSE LET item == Head(colors)
             bytes == IF dev = "Sk6812w"
                      THEN << item.r, item.g, item.b, item.w >>
                      ELSE OrderedColors(po, item)
             s1 == PreWriteBytes(s, bytes, oc)
         IN IF s1.res # "ok" THEN s1
            ELSE PrePixelsStructOrder(s1, dev, po, Tail(colors), oc)

\* prerendered.rs:177-183 and 216-223, the loops over the iterator
RECURSIVE PrePixels(_, _, _, _, _)
PrePixels(s, dev, po, colors, oc) ==
    IF colors = << >> THEN s
    ELSE LET item == Head(colors)
             bytes == IF dev = "Sk6812w"
                      THEN << item.g, item.r, item.b, item.w >>
                      ELSE OrderedColors(po, item)
             s1 == PreWriteBytes(s, bytes, oc)
         IN IF s1.res # "ok" THEN s1 ELSE PrePixels(s1, dev, po, Tail(colors), oc)

\* send_reset with its loop one round short
PreSendResetShort(t) == ZeroRun(t, RESET_DATA_LEN - 1)

\* prerendered.rs:145-151
PreSendReset(t) == ZeroRun(t, RESET_DATA_LEN)

\* send_data handing over the whole buffer instead of data[..index]
PreSendDataWhole(t, s) == SpiCall(t, s.data)

\* prerendered.rs:153-155
PreSendData(t, s) == SpiCall(t, SubSeq(s.data, 1, s.index))

\* write without its if cfg!(feature = "mosi_idle_high") block
PreEncodeNoIdle(buf, dev, po, mosi, rst, colors, oc) ==
    LET s0 == [data |-> buf, index |-> 0, res |-> "ok"]
        s2 == PrePixels(s0, dev, po, colors, oc)
    IN IF s2.res # "ok" THEN s2 ELSE IF rst THEN PreWriteReset(s2) ELSE s2

\* prerendered.rs:171-187: everything write does before it touches the bus
PreEncode(buf, dev, po, mosi, rst, colors, oc) ==
    LET s0 == [data |-> buf, index |-> 0, res |-> "ok"]
        s1 == IF mosi THEN PreWriteReset(s0) ELSE s0
        s2 == IF s1.res # "ok" THEN s1 ELSE PrePixels(s1, dev, po, colors, oc)
    IN IF s2.res # "ok" THEN s2 ELSE IF rst THEN PreWriteReset(s2) ELSE s2

\* write calling send_data and send_reset before it looks at the outcome of
\* the encoding
PreWriteSendFirst(buf, idx, dev, po, mosi, rst, colors, faults, oc) ==
    LET s  == PreEncode(buf, dev, po, mosi, rst, colors, oc)
        t0 == NewBus(faults)
        t1 == PreSendData(t0, s)
        t2 == IF t1.err \/ rst THEN t1 ELSE PreSendReset(t1)
    IN [data |-> s.data, index |-> s.index,
        res |-> IF s.res # "ok" THEN s.res
                ELSE IF t2.err THEN "spi" ELSE "ok",
        log |-> t2.log]

\* prerendered.rs:166-195 and 205-235; idx is the cursor left by earlier
\* calls, which write overwrites in its first statement
PreWrite(buf, idx, dev, po, mosi, rst, colors, faults, oc) ==
    LET s  == PreEncode(buf, dev, po, mosi, rst, colors, oc)
        t0 == NewBus(faults)
        t1 == PreSendData(t0, s)
        t2 == IF t1.err \/ rst THEN t1 ELSE PreSendReset(t1)
    IN IF s.res # "ok"
       THEN [data |-> s.data, index |-> s.index, res |-> s.res, log |-> << >>]
       ELSE [data |-> s.data, index |-> s.index,
             res |-> IF t2.err THEN "spi" ELSE "ok", log |-> t2.log]

(* ---------------------------- hosted.rs --------------------------------- *)

\* hosted.rs:100-104, the loop of write_byte: the words its k rounds push
RECURSIVE HostedWriteByteLoop(_, _)
HostedWriteByteLoop(data, k) ==
    IF k = 0 THEN << >>
    ELSE << patterns[TopBits(data) + 1] >> \o HostedWriteByteLoop(Shl2(data), k - 1)

\* hosted.rs:95-105
HostedWriteByte(vec, data) == vec \o HostedWriteByteLoop(data, 4)

RECURSIVE HostedWriteBytes(_, _)
HostedWriteBytes(vec, bytes) ==
    IF bytes = << >> THEN vec
    ELSE HostedWriteBytes(HostedWriteByte(vec, Head(bytes)), Tail(bytes))

\* hosted.rs:128-134 and 151-158, the loops over the iterator
RECURSIVE HostedPixels(_, _, _, _)
HostedPixels(vec, dev, po, colors) ==
    IF colors = << >> THEN vec
    ELSE LET item == Head(colors)
             bytes == IF dev = "Sk6812w"
                      THEN << item.g, item.r, item.b, item.w >>
                      ELSE OrderedColors(po, item)
         IN HostedPixels(HostedWriteBytes(vec, bytes), dev, po, Tail(colors))

\* hosted.rs:107-112
HostedSendData(vec, faults) ==
    LET full == vec \o Zeros(HostedResetLen)
        t    == SpiCall(NewBus(faults), full)
    IN IF t.err
       THEN [data |-> full, res |-> "spi", log |-> t.log]
       ELSE [data |-> SubSeq(full, 1, HostedResetLen), res |-> "ok", log |-> t.log]

\* hosted.rs:123-136 and 146-160
HostedWrite(vec, dev, po, colors, faults) ==
    HostedSendData(HostedPixels(vec, dev, po, colors), faults)

(* ------------------------------ the drivers ----------------------------- *)

VARIABLES
    strategy,                  \* which module's Ws2812 this instance is
    device,                    \* DEVICE type parameter
    order,                     \* PIXELORDER type parameter
    mosi_idle_high,            \* cfg!(feature = "mosi_idle_high")
    reset_single_transaction,  \* cfg!(feature = "reset_single_transaction")
    overflow_checks,           \* the build panics on arithmetic overflow
    data,                      \* prerendered: the buffer; hosted: the Vec
    index,                     \* prerendered: the cursor
    spi,                       \* the transport calls of the last call
    result,                    \* how the last call ended
    colors,                    \* the colors the last write call was given
    faults,                    \* the transport calls of it that reported an error
    prev,                      \* how the call before the last ended
    channel                    \* the byte write_byte was given when called alone

config == << strategy, device, order, mosi_idle_high,
             reset_single_transaction, overflow_checks >>

vars == << strategy, device, order, mosi_idle_high, reset_single_transaction,
           overflow_checks, data, index, spi, result, colors, faults, prev,
           channel >>

\* the driver files of src/src, each with its own Ws2812; BuiltStrategies
\* are the two every build of the crate contains (lib.rs:17-19)
BuiltStrategies == {"lib", "prerendered"}

Strategies == BuiltStrategies \cup {"halfduplex", "hosted"}

Devices == {"Ws2812", "Sk6812w"}

\* prerendered.rs:58-62 and 87-91, the buffer length the constructors ask for
DocMinLen(dev, n, mosi, rst) ==
    (IF dev = "Sk6812w" THEN 16 ELSE 12) * n
    + (IF rst THEN 140 ELSE 0) + (IF mosi THEN 140 ELSE 0)

\* lib.rs:96-102 and 119-125, halfduplex.rs:83-88 and 105-110,
\* prerendered.rs:66-74 and 97-105, hosted.rs:54-63 and 78-87
New(strat, dev, po, buf) ==
    /\ strategy = strat
    /\ device = dev
    /\ order = po
    /\ data = CASE strat = "prerendered" -> buf
                [] strat = "hosted"      -> Zeros(HostedResetLen)
                [] OTHER                 -> << >>
    /\ index = 0
    /\ spi = << >>
    /\ result = "none"
    /\ colors = << >>
    /\ faults = {}
    /\ prev = "none"
    /\ channel = 0

\* the type parameters each module offers: halfduplex.rs has no PIXELORDER,
\* hosted.rs has none for Sk6812w (the default, GRB, stands)
OrdersOf(strat, dev) ==
    IF strat = "halfduplex" \/ (strat = "hosted" /\ dev = "Sk6812w")
    THEN {"GRB"} ELSE PixelOrders

\* reset_single_transaction is read by prerendered.rs alone
RstOf(strat) == IF strat = "prerendered" THEN BOOLEAN ELSE {FALSE}

\* Instances of every module under every feature set and type parameter; the
\* prerendered buffer has the documented length for MaxPixels - 1 pixels, so
\* that the longest frames do not fit.
Init ==
    /\ mosi_idle_high \in BOOLEAN
    /\ overflow_checks = FALSE
    /\ \E strat \in Strategies, dev \in Devices :
         /\ reset_single_transaction \in RstOf(strat)
         /\ \E po \in OrdersOf(strat, dev) :
              New(strat, dev, po,
                  Zeros(DocMinLen(dev, MaxPixels - 1, mosi_idle_high,
                                  reset_single_transaction)))

Ended(t) == IF t.err THEN "spi" ELSE "ok"

\* the calls of a log that reported an error
Reported(f, log) == { k \in f : k < Len(log) }

\* lib.rs SmartLedsWrite::write
WriteLib ==
    /\ strategy = "lib"
    /\ \E cs \in Frames, f \in Faults :
         \E t \in { IF device = "Sk6812w"
                    THEN LibWriteSk6812w(mosi_idle_high, cs, f)
                    ELSE LibWriteWs2812(order, mosi_idle_high, cs, f) } :
            /\ spi' = t.log
            /\ result' = Ended(t)
            /\ colors' = cs
            /\ faults' = Reported(f, t.log)
    /\ prev' = result
    /\ UNCHANGED << config, data, index, channel >>

\* halfduplex.rs SmartLedsWrite::write
WriteHalfduplex ==
    /\ strategy = "halfduplex"
    /\ \E cs \in Frames, f \in Faults :
         \E t \in { HdWrite(device, mosi_idle_high, cs, f) } :
            /\ spi' = t.log
            /\ result' = Ended(t)
            /\ colors' = cs
            /\ faults' = Reported(f, t.log)
    /\ prev' = result
    /\ UNCHANGED << config, data, index, channel >>

\* prerendered.rs SmartLedsWrite::write; a panic ends the use of the instance
WritePrerendered ==
    /\ strategy = "prerendered"
    /\ result # "panic"
    /\ \E cs \in Frames, f \in Faults :
         \E w \in { PreWrite(data, index, device, order, mosi_idle_high,
                             reset_single_transaction, cs, f, overflow_checks) } :
            /\ data' = w.data
            /\ index' = w.index
            /\ spi' = w.log
            /\ result' = w.res
            /\ colors' = cs
            /\ faults' = Reported(f, w.log)
    /\ prev' = result
    /\ UNCHANGED << config, channel >>

\* hosted.rs SmartLedsWrite::write
WriteHosted ==
    /\ strategy = "hosted"
    /\ Len(data) <= MaxData
    /\ \E cs \in Frames, f \in Faults :
         \E w \in { HostedWrite(data, device, order, cs, f) } :
            /\ data' = w.data
            /\ spi' = w.log
            /\ result' = w.res
            /\ colors' = cs
            /\ faults' = Reported(f, w.log)
    /\ prev' = result
    /\ UNCHANGED << config, index, channel >>

Next == WriteLib \/ WriteHalfduplex \/ WritePrerendered \/ WriteHosted

Spec == Init /\ [][Next]_vars

(* --------------- prerendered.rs over every buffer length ---------------- *)

\* A prerendered instance, default pixel order, over a buffer of every length
\* from 0 to CapSlack bytes past the documented length for MaxPixels pixels,
\* in a build with or without overflow checks (read for buffers shorter
\* than 4 only).
InitCap ==
    /\ mosi_idle_high \in BOOLEAN
    /\ reset_single_transaction \in BOOLEAN
    /\ \E dev \in Devices :
         \E cap \in 0..(DocMinLen(dev, MaxPixels, mosi_idle_high,
                                  reset_single_transaction) + CapSlack) :
            /\ overflow_checks \in IF cap < 4 THEN BOOLEAN ELSE {FALSE}
            /\ New("prerendered", dev, "GRB", Zeros(cap))

\* the first write call of an instance
FirstWrite == result = "none" /\ WritePrerendered

SpecCap == InitCap /\ [][FirstWrite]_vars

(* ------------------------ write_byte on its own ------------------------- *)

Bytes == 0..(U8 - 1)

\* a fresh instance of a module; prerendered over a buffer for one byte
InitEnc ==
    /\ mosi_idle_high = FALSE
    /\ reset_single_transaction = FALSE
    /\ overflow_checks = FALSE
    /\ \E strat \in Strategies : New(strat, "Ws2812", "GRB", Zeros(4))

\* lib.rs write_byte
EncLib ==
    /\ strategy = "lib" /\ result = "none"
    /\ \E b \in Bytes :
         \E t \in { LibWriteByte(NewBus({}), b) } :
            /\ channel' = b
            /\ spi' = t.log
            /\ result' = Ended(t)
    /\ UNCHANGED << config, data, index, colors, faults, prev >>

\* halfduplex.rs write_byte
EncHalfduplex ==
    /\ strategy = "halfduplex" /\ result = "none"
    /\ \E b \in Bytes :
         \E t \in { HdWriteByte(NewBus({}), b) } :
            /\ channel' = b
            /\ spi' = t.log
            /\ result' = Ended(t)
    /\ UNCHANGED << config, data, index, colors, faults, prev >>

\* prerendered.rs write_byte
EncPrerendered ==
    /\ strategy = "prerendered" /\ result = "none"
    /\ \E b \in Bytes :
         \E s \in { PreWriteByte([data |-> data, index |-> index, res |-> "ok"],
                                 b, overflow_checks) } :
            /\ channel' = b
            /\ data' = s.data
            /\ index' = s.index
            /\ result' = s.res
    /\ UNCHANGED << config, spi, colors, faults, prev >>

\* hosted.rs write_byte
EncHosted ==
    /\ strategy = "hosted" /\ result = "none"
    /\ \E b \in Bytes :
         /\ channel' = b
         /\ data' = HostedWriteByte(data, b)
         /\ result' = "ok"
    /\ UNCHANGED << config, index, spi, colors, faults, prev >>

NextEnc == EncLib \/ EncHalfduplex \/ EncPrerendered \/ EncHosted

SpecEnc == InitEnc /\ [][NextEnc]_vars

(* --------------------- write_byte called twice -------------------------- *)

\* a fresh instance of a module; prerendered over a buffer for two bytes
InitAgain ==
    /\ mosi_idle_high = FALSE
    /\ reset_single_transaction = FALSE
    /\ overflow_checks = FALSE
    /\ \E strat \in Strategies : New(strat, "Ws2812", "GRB", Zeros(8))

\* lib.rs write_byte, called again with the same byte on the same bus
AgainLib ==
    /\ strategy = "lib" /\ result = "ok" /\ prev = "none"
    /\ \E t \in { LibWriteByte([log |-> spi, faults |-> {}, err |-> FALSE],
                               channel) } :
          /\ spi' = t.log
          /\ result' = Ended(t)
    /\ prev' = result
    /\ UNCHANGED << config, data, index, colors, faults, channel >>

\* halfduplex.rs write_byte, called again with the same byte
AgainHalfduplex ==
    /\ strategy = "halfduplex" /\ result = "ok" /\ prev = "none"
    /\ \E t \in { HdWriteByte([log |-> spi, faults |-> {}, err |-> FALSE],
                              channel) } :
          /\ spi' = t.log
          /\ result' = Ended(t)
    /\ prev' = result
    /\ UNCHANGED << config, data, index, colors, faults, channel >>

\* prerendered.rs write_byte, called again with the same byte: the cursor
\* stands behind the first call's words
AgainPrerendered ==
    /\ strategy = "prerendered" /\ result = "ok" /\ prev = "none"
    /\ \E s \in { PreWriteByte([data |-> data, index |-> index, res |-> "ok"],
                               channel, overflow_checks) } :
          /\ data' = s.data
          /\ index' = s.index
          /\ result' = s.res
    /\ prev' = result
    /\ UNCHANGED << config, spi, colors, faults, channel >>

\* hosted.rs write_byte, called again with the same byte
AgainHosted ==
    /\ strategy = "hosted" /\ result = "ok" /\ prev = "none"
    /\ data' = HostedWriteByte(data, channel)
    /\ result' = "ok"
    /\ prev' = result
    /\ UNCHANGED << config, index, spi, colors, faults, channel >>

NextAgain ==
    \/ EncLib \/ EncHalfduplex \/ EncPrerendered \/ EncHosted
    \/ AgainLib \/ AgainHalfduplex \/ AgainPrerendered \/ AgainHosted

SpecAgain == InitAgain /\ [][NextAgain]_vars

(* ------------------------- reading the transport ----------------------- *)

\* lib.rs:148, the length of the latch gap every module uses
ResetBytes == 140

\* The words the transport was handed by the last call, in order.  Only the
\* first call of a write carries more than one word (the bulk write).
Wire ==
    IF spi = << >> THEN << >>
    ELSE spi[1] \o [i \in 1..(Len(spi) - 1) |-> spi[i + 1][1]]

ChannelCount == IF device = "Sk6812w" THEN 4 ELSE 3

WordsPerByte == IF strategy = "halfduplex" THEN 8 ELSE 4

PayloadLen == WordsPerByte * ChannelCount * Len(colors)

\* the words in front of the ResetBytes words that end the transfer
Payload ==
    SubSeq(Wire, Len(Wire) - ResetBytes - PayloadLen + 1, Len(Wire) - ResetBytes)

\* the words of channel j of pixel i
ChannelWords(i, j) ==
    LET off == ((i - 1) * ChannelCount + (j - 1)) * WordsPerByte
    IN SubSeq(Payload, off + 1, off + WordsPerByte)

\* sub-bit group j (0 first, 4 sub-bits) of a run of words
Nibble(ws, j) ==
    LET w == ws[(j \div 2) + 1]
    IN IF j % 2 = 0 THEN w \div 16 ELSE w % 16

\* bit n (0 the least significant) of a byte
BitOf(b, n) == (b \div (2 ^ n)) % 2

\* what a strip reads from a run of words: 1110 is a one, 1000 a zero on the
\* 4x table; halfduplex.rs sends 0xEE for a one and 0xEC for a zero.
\* The result is outside 0..255 when a group is neither.
Decoded(ws) ==
    IF strategy = "halfduplex"
    THEN IF Len(ws) = 8 /\ \A k \in 1..8 : ws[k] \in {238, 236}
         THEN   128 * ((ws[1] % 4) \div 2) + 64 * ((ws[2] % 4) \div 2)
              + 32 * ((ws[3] % 4) \div 2) + 16 * ((ws[4] % 4) \div 2)
              + 8 * ((ws[5] % 4) \div 2) + 4 * ((ws[6] % 4) \div 2)
              + 2 * ((ws[7] % 4) \div 2) + ((ws[8] % 4) \div 2)
         ELSE U8
    ELSE IF Len(ws) = 4 /\ \A j \in 0..7 : Nibble(ws, j) \in {14, 8}
         THEN   128 * (Nibble(ws, 0) \div 14) + 64 * (Nibble(ws, 1) \div 14)
              + 32 * (Nibble(ws, 2) \div 14) + 16 * (Nibble(ws, 3) \div 14)
              + 8 * (Nibble(ws, 4) \div 14) + 4 * (Nibble(ws, 5) \div 14)
              + 2 * (Nibble(ws, 6) \div 14) + (Nibble(ws, 7) \div 14)
         ELSE U8

\* the channel a pixel order names first, second and third
OrderNames ==
    [RGB |-> << "r", "g", "b" >>, RBG |-> << "r", "b", "g" >>,
     GRB |-> << "g", "r", "b" >>, GBR |-> << "g", "b", "r" >>,
     BRG |-> << "b", "r", "g" >>, BGR |-> << "b", "g", "r" >>]

\* a successful write ends with ResetBytes words behind the payload
Delivered == result = "ok" /\ Len(Wire) >= ResetBytes + PayloadLen

(* -------------------------------- claims -------------------------------- *)

\* C1: for a three-channel device, in lib.rs, prerendered.rs and hosted.rs
\* (and in halfduplex.rs, whose order is always GRB), every successful write
\* encodes, pixel after pixel in sequence order, the three channel bytes in
\* the order the pixel order names; under the default order GRB the color
\* r=0x11, g=0x22, b=0x33 is encoded as 0x22, 0x11, 0x33.
C1_ChannelOrder ==
    (/\ result = "ok"
     /\ device = "Ws2812"
     /\ strategy \in Strategies)
    => /\ Delivered
       /\ \A i \in 1..Len(colors) : \A j \in 1..3 :
             Decoded(ChannelWords(i, j)) = colors[i][OrderNames[order][j]]
       /\ (order = "GRB" /\ colors # << >> /\ colors[1] = Palette[1])
             => << Decoded(ChannelWords(1, 1)), Decoded(ChannelWords(1, 2)),
                   Decoded(ChannelWords(1, 3)) >> = << 34, 17, 51 >>

\* a prerendered GBR instance has written two different pixels
C1_Witness ==
    /\ result = "ok"
    /\ device = "Ws2812"
    /\ strategy = "prerendered"
    /\ order = "GBR"
    /\ Len(colors) = 2
    /\ colors[1] # colors[2]

\* C2: for an SK6812W device every successful write encodes each pixel as
\* green, red, blue, white, in every module and under every pixel order
\* parameter.
C2_Sk6812wOrder ==
    (result = "ok" /\ device = "Sk6812w")
    => /\ Delivered
       /\ \A i \in 1..Len(colors) : \A j \in 1..4 :
             Decoded(ChannelWords(i, j)) = colors[i][<< "g", "r", "b", "w" >>[j]]

\* a prerendered SK6812W instance with pixel order RGB has written two pixels
C2_Witness ==
    /\ result = "ok"
    /\ device = "Sk6812w"
    /\ strategy = "prerendered"
    /\ order = "RGB"
    /\ Len(colors) = 2

\* the words write_byte produced when called alone
Encoded ==
    CASE strategy = "prerendered" -> SubSeq(data, 1, index)
      [] strategy = "hosted"      -> SubSeq(data, HostedResetLen + 1, Len(data))
      [] OTHER                    -> Wire

\* the number of high sub-bits of a word
HighSubBits(w) ==
    BitOf(w, 0) + BitOf(w, 1) + BitOf(w, 2) + BitOf(w, 3)
    + BitOf(w, 4) + BitOf(w, 5) + BitOf(w, 6) + BitOf(w, 7)

\* C3: on the fixed 4x table write_byte turns every byte into exactly 4
\* words; sub-bit group j of them (0..7, first sent first) is 1110 when bit
\* 7-j of the byte is 1 and 1000 when it is 0, so 0xFF has 8 x 3 and 0x00 has
\* 8 x 1 high sub-bits.
C3_TableEncoding ==
    (result = "ok" /\ strategy \in {"lib", "prerendered", "hosted"})
    => /\ Len(Encoded) = 4
       /\ \A j \in 0..7 :
             Nibble(Encoded, j) = IF BitOf(channel, 7 - j) = 1 THEN 14 ELSE 8
       /\ channel = 255 =>
             HighSubBits(Encoded[1]) + HighSubBits(Encoded[2])
             + HighSubBits(Encoded[3]) + HighSubBits(Encoded[4]) = 8 * 3
       /\ channel = 0 =>
             HighSubBits(Encoded[1]) + HighSubBits(Encoded[2])
             + HighSubBits(Encoded[3]) + HighSubBits(Encoded[4]) = 8 * 1

\* prerendered.rs write_byte has encoded 0xA5 into its buffer
C3_Witness ==
    /\ strategy = "prerendered"
    /\ result = "ok"
    /\ channel = 165
    /\ index = 4

\* the 4 words the table stands for: 1110 for a one, 1000 for a zero, the
\* most significant bit first
TableWords(b) ==
    [k \in 1..4 |->
        16 * (IF BitOf(b, 9 - 2 * k) = 1 THEN 14 ELSE 8)
        + (IF BitOf(b, 8 - 2 * k) = 1 THEN 14 ELSE 8)]

\* the first channel byte of the last write call
FirstChannel ==
    IF device = "Sk6812w" \/ strategy = "halfduplex"
    THEN colors[1].g
    ELSE colors[1][OrderNames[order][1]]

\* the first word that encodes it
FirstPayloadWord ==
    IF strategy = "halfduplex"
    THEN (IF BitOf(FirstChannel, 7) = 1 THEN 238 ELSE 236)
    ELSE TableWords(FirstChannel)[1]

AllZero(ws, from, to) == \A i \in from..to : ws[i] = 0

\* a successful lib.rs write of three pixels to a three-channel strip
\* without mosi_idle_high
C4_Scenario(strat) ==
    /\ strategy = strat
    /\ device = "Ws2812"
    /\ ~mosi_idle_high
    /\ result = "ok"
    /\ Len(colors) = 3

\* C4 as stated: streaming three pixels over the 4x table sends 1 dummy
\* word, then 36 payload words of which the first 12 encode g, r, b of the
\* first pixel, then 140 zero words.
C4_Original ==
    (C4_Scenario("lib") /\ order = "GRB")
    => /\ Len(spi) = 1 + 3 * 3 * 4 + ResetBytes
       /\ spi[1] = << 0 >>
       /\ SubSeq(Wire, 2, 13) = TableWords(colors[1].g) \o TableWords(colors[1].r)
                                 \o TableWords(colors[1].b)

\* C4 as amended: lib.rs sends no dummy word and reads nothing: the write is
\* 36 one-word payload calls, the first 12 of them the table encoding of the
\* first pixel's channels in pixel order (g, r, b by default), then 140
\* one-word zero calls.  halfduplex.rs does begin with one dummy zero word,
\* followed by 8 words per channel byte and 140 zero words.
C4_Streaming ==
    /\ C4_Scenario("lib")
       => /\ Len(spi) = 3 * 3 * 4 + ResetBytes
          /\ \A k \in 1..Len(spi) : Len(spi[k]) = 1
          /\ SubSeq(Wire, 1, 12) =
                TableWords(colors[1][OrderNames[order][1]])
                \o TableWords(colors[1][OrderNames[order][2]])
                \o TableWords(colors[1][OrderNames[order][3]])
          /\ order = "GRB" =>
                SubSeq(Wire, 1, 12) = TableWords(colors[1].g)
                    \o TableWords(colors[1].r) \o TableWords(colors[1].b)
          /\ \A k \in 13..36 : Wire[k] # 0
          /\ AllZero(Wire, 37, 36 + ResetBytes)
    /\ C4_Scenario("halfduplex")
       => /\ Len(spi) = 1 + 3 * 3 * 8 + ResetBytes
          /\ \A k \in 1..Len(spi) : Len(spi[k]) = 1
          /\ spi[1] = << 0 >>
          /\ \A k \in 2..73 : Wire[k] # 0
          /\ AllZero(Wire, 74, 73 + ResetBytes)

\* lib.rs has written three pixels, the first r=0x11, g=0x22, b=0x33
C4_Witness ==
    /\ C4_Scenario("lib")
    /\ order = "GRB"
    /\ colors[1] = Palette[1]
    /\ faults = {}

\* C5: in lib.rs, halfduplex.rs and prerendered.rs a transport call that
\* reports an error is the last transport call of that write, and write
\* returns the error.
C5_Abort ==
    (strategy \in {"lib", "halfduplex", "prerendered"} /\ faults # {})
    => /\ result = "spi"
       /\ \A k \in faults : Len(spi) = k + 1

\* the buffer length a frame of the last call's colors needs
Needed == DocMinLen(device, Len(colors), mosi_idle_high, reset_single_transaction)

\* C6: prerendered, for every buffer length: the cursor never exceeds the
\* buffer length, write never panics, and a frame that does not fit makes
\* write return OutOfBounds with nothing handed to the transport.
C6_Bounds ==
    strategy = "prerendered"
    => /\ index <= Len(data)
       /\ result # "panic"
       /\ (result # "none" /\ Needed > Len(data))
             => (result = "oob" /\ spi = << >>)

\* C7: prerendered: a buffer of the documented length for the frame never
\* yields OutOfBounds, and every shorter buffer yields OutOfBounds.
C7_MinLen ==
    (strategy = "prerendered" /\ result # "none")
    => /\ Len(data) >= Needed => result \in {"ok", "spi"}
       /\ Len(data) < Needed => result = "oob"

\* the transport calls of the first write of the same colors by a fresh
\* instance with the same parameters and buffer length
FreshCalls ==
    IF strategy = "prerendered"
    THEN PreWrite(Zeros(Len(data)), 0, device, order, mosi_idle_high,
                  reset_single_transaction, colors, {}, overflow_checks).log
    ELSE HostedWrite(Zeros(HostedResetLen), device, order, colors, {}).log

\* C8: prerendered and hosted: whatever was written before, a successful
\* write hands the transport what the first write of the same colors by a
\* fresh instance hands it.
C8_FreshBytes ==
    (strategy \in {"prerendered", "hosted"} /\ result = "ok")
    => spi = FreshCalls

\* the zero words a module sends ahead of the payload
LeadLen ==
    (IF strategy = "halfduplex" THEN 1 ELSE 0)
    + (IF strategy = "hosted" \/ mosi_idle_high THEN ResetBytes ELSE 0)

\* C9: every successful write ends with exactly 140 zero words, the payload
\* lies in front of them, and no payload word follows a latch word that came
\* after payload.
C9_PostLatch ==
    result = "ok"
    => /\ Delivered
       /\ AllZero(Wire, Len(Wire) - ResetBytes + 1, Len(Wire))
       /\ \A i \in 1..PayloadLen : Payload[i] # 0
       /\ PayloadLen = 0 => Len(Wire) = LeadLen + ResetBytes
       /\ \A i \in 1..(Len(Wire) - 1) :
             (Wire[i] # 0 /\ Wire[i + 1] = 0) => i = Len(Wire) - ResetBytes

\* C10 as stated: in every module a write without mosi_idle_high hands the
\* transport the payload first (the post-latch gap first when there are no
\* colors), and a write with it sends 140 zero words ahead.
C10_Original ==
    result = "ok"
    => /\ Len(Wire) = (IF mosi_idle_high THEN ResetBytes ELSE 0)
                      + PayloadLen + ResetBytes
       /\ mosi_idle_high => AllZero(Wire, 1, ResetBytes)
       /\ (~mosi_idle_high /\ colors # << >>) => Wire[1] = FirstPayloadWord

\* C10 as amended: lib.rs and prerendered.rs send the 140 pre-latch zero
\* words exactly when mosi_idle_high is set, and otherwise begin with the
\* first payload word (the post-latch gap when there are no colors);
\* halfduplex.rs does the same behind one dummy zero word it always sends;
\* hosted.rs always begins with 140 zero words, whatever the option.
C10_PreLatch ==
    result = "ok"
    => /\ AllZero(Wire, 1, LeadLen)
       /\ strategy # "hosted"
          => /\ Len(Wire) = LeadLen + PayloadLen + ResetBytes
             /\ colors # << >> => Wire[LeadLen + 1] = FirstPayloadWord
       /\ strategy = "hosted"
          => /\ Len(Wire) >= LeadLen + PayloadLen + ResetBytes
             /\ (prev # "spi" /\ colors # << >>)
                   => Wire[LeadLen + 1] = FirstPayloadWord

\* hosted.rs, built without mosi_idle_high, has written a pixel
C10_Witness ==
    /\ strategy = "hosted"
    /\ ~mosi_idle_high
    /\ result = "ok"
    /\ colors # << >>
    /\ Wire[1] = 0

(* -------------------------- sub-bits per logical bit -------------------- *)

\* sub-bits a strip sees per logical bit: the table packs two bits into an
\* 8-bit word (lib.rs:134-137); halfduplex.rs sends one bit per word over a
\* bus set to 5 bits a word (halfduplex.rs:8, 120)
SubBitsPerBit == IF strategy = "halfduplex" THEN 5 ELSE 4

(* -------------------------- length of an encoding ----------------------- *)

\* the words of the first and of the second call of write_byte
FirstCall == SubSeq(Encoded, 1, Len(Encoded) \div 2)

SecondCall == SubSeq(Encoded, (Len(Encoded) \div 2) + 1, Len(Encoded))

\* C12 as stated: encoding a byte twice gives the same words, and on the
\* fixed table one byte becomes total = 4 sub-bits rounded up to whole
\* bytes, that is 1 byte.
C12_Original ==
    (result = "ok" /\ strategy \in {"lib", "prerendered", "hosted"})
    => /\ prev = "none" => Len(Encoded) = (SubBitsPerBit + 7) \div 8
       /\ prev = "ok" => FirstCall = SecondCall

\* C12 as amended: encoding a byte twice on the same instance gives the same
\* words both times, and one byte becomes 8 x total sub-bits: on the fixed
\* table (total = 4) 32 sub-bits in 4 whole bytes, in halfduplex.rs 8 words
\* of total = 5 sub-bits, one per bit.
C12_Encoding ==
    result = "ok"
    => /\ prev = "none" =>
             Len(Encoded) = IF strategy = "halfduplex"
                            THEN 8
                            ELSE (8 * SubBitsPerBit + 7) \div 8
       /\ prev = "ok" =>
             /\ Len(Encoded) = IF strategy = "halfduplex"
                               THEN 2 * 8
                               ELSE 2 * ((8 * SubBitsPerBit + 7) \div 8)
             /\ FirstCall = SecondCall

\* lib.rs write_byte has sent 0x5A twice: 8 one-word calls
C12_Witness ==
    /\ strategy = "lib"
    /\ result = "ok"
    /\ prev = "ok"
    /\ channel = 90
    /\ Len(spi) = 8

(* ------------------------- prerendered ordering ------------------------- *)

\* the length of the frame a prerendered write encodes into its buffer
FrameLen ==
    (IF mosi_idle_high THEN RESET_DATA_LEN ELSE 0) + PayloadLen
    + (IF reset_single_transaction THEN RESET_DATA_LEN ELSE 0)

\* C13: prerendered: whenever a write reaches the transport, its first call
\* is one bulk write of data[0..index] holding the whole encoded frame; a
\* successful write with reset_single_transaction makes no other call and
\* its bulk write ends with the 140 post-latch zeros, one without it follows
\* the bulk write with exactly 140 writes of one zero byte.
C13_BulkWrite ==
    (strategy = "prerendered" /\ result \in {"ok", "spi"})
    => /\ Len(spi) >= 1
       /\ index = FrameLen
       /\ spi[1] = SubSeq(data, 1, index)
       /\ \A k \in 2..Len(spi) : spi[k] = << 0 >>
       /\ (result = "ok" /\ reset_single_transaction)
             => /\ Len(spi) = 1
                /\ AllZero(spi[1], index - RESET_DATA_LEN + 1, index)
       /\ (result = "ok" /\ ~reset_single_transaction)
             => Len(spi) = 1 + RESET_DATA_LEN
       /\ result = "spi" => Len(spi) <= 1 + RESET_DATA_LEN

\* a prerendered write of one pixel without reset_single_transaction: the
\* bulk write, then 140 single zeros
C13_Witness ==
    /\ strategy = "prerendered"
    /\ ~reset_single_transaction
    /\ result = "ok"
    /\ Len(colors) = 1
    /\ Len(spi) = 141
    /\ Len(spi[1]) = index

(* ------------------------- prerendered OutOfBounds ---------------------- *)

\* C14: prerendered, under every feature set: a write that returns
\* OutOfBounds has made no transport call, and the write after it, when its
\* frame fits the buffer and the transport reports no error, succeeds and
\* hands over its whole frame.
C14_OutOfBounds ==
    strategy = "prerendered"
    => /\ result = "oob" => spi = << >>
       /\ (prev = "oob" /\ FrameLen <= Len(data) /\ faults = {})
             => /\ result = "ok"
                /\ index = FrameLen
                /\ spi # << >>
                /\ spi[1] = SubSeq(data, 1, FrameLen)

\* a write of two pixels has succeeded on an instance whose last write
\* returned OutOfBounds
C14_Witness ==
    /\ strategy = "prerendered"
    /\ prev = "oob"
    /\ result = "ok"
    /\ Len(colors) = 2

(* ------------------------- lib.rs and prerendered.rs -------------------- *)

\* the words of a log of transport calls, in order
WireOf(log) ==
    IF log = << >> THEN << >>
    ELSE log[1] \o [i \in 1..(Len(log) - 1) |-> log[i + 1][1]]

\* what lib.rs hands a working transport for the configuration and the
\* colors of the last write
LibWire ==
    WireOf((IF device = "Sk6812w"
            THEN LibWriteSk6812w(mosi_idle_high, colors, {})
            ELSE LibWriteWs2812(order, mosi_idle_high, colors, {})).log)

\* what prerendered.rs hands a working transport for the same, over a buffer
\* of the documented length, with reset_single_transaction as given
PreWire(rst) ==
    WireOf(PreWrite(Zeros(DocMinLen(device, Len(colors), mosi_idle_high, rst)),
                    0, device, order, mosi_idle_high, rst, colors, {},
                    overflow_checks).log)

\* C15: for the same device, pixel order, mosi_idle_high and colors a
\* successful write of lib.rs and a successful write of prerendered.rs, with
\* or without reset_single_transaction, hand the transport the same words
\* in the same order; lib.rs in calls of one word each, prerendered.rs with
\* the frame in its first call.
C15_SameBytes ==
    /\ (strategy = "prerendered" /\ result = "ok")
          => /\ Wire = LibWire
             /\ Len(spi[1]) = index
    /\ (strategy = "lib" /\ result = "ok")
          => /\ \A rst \in BOOLEAN : Wire = PreWire(rst)
             /\ \A k \in 1..Len(spi) : Len(spi[k]) = 1

\* prerendered.rs, with both features, has written two pixels in a single
\* call
C15_Witness ==
    /\ strategy = "prerendered"
    /\ mosi_idle_high
    /\ reset_single_transaction
    /\ result = "ok"
    /\ Len(colors) = 2
    /\ Len(spi) = 1
    /\ Len(Wire) = 140 + PayloadLen + 140

====
